---- MODULE Spec2Model ----
(***************************************************************************)
(* Batch certificate generation (src/src/types/certificates.ts).           *)
(*                                                                         *)
(* Strings are sequences of one-character strings, so that the regular     *)
(* expression passes of sanitizeFilename and replacePlaceholders are       *)
(* computed character by character as the code computes them.              *)
(*                                                                         *)
(* One generateBatch call is a process whose position is pc; its steps     *)
(* are the synchronous stretches of code between two awaits.  The          *)
(* collaborators of the call (image loader, canvas encoder, JSZip, the     *)
(* onProgress callback, the download link) are the environment: every      *)
(* call made to them is recorded in log, and they answer with success or   *)
(* failure nondeterministically.                                           *)
(***************************************************************************)
EXTENDS Integers, Sequences, FiniteSets, TLC

\* ------------------------------------------------------------------------
\* Bounds of the model
\* ------------------------------------------------------------------------

\* longest recipient list handed to generateBatch
MaxRecipients == 2

\* largest number of image elements of a layout
MaxOverlays == 1

\* most pieces a text handed to extractPlaceholders on its own is made of
MaxPieces == 2

\* longest name handed to sanitizeFilename on its own
MaxNameLen == 4

\* ------------------------------------------------------------------------
\* Characters and strings
\* ------------------------------------------------------------------------

UpperLetters ==
  << "A","B","C","D","E","F","G","H","I","J","K","L","M",
     "N","O","P","Q","R","S","T","U","V","W","X","Y","Z" >>

LowerLetters ==
  << "a","b","c","d","e","f","g","h","i","j","k","l","m",
     "n","o","p","q","r","s","t","u","v","w","x","y","z" >>

Digits == {"0","1","2","3","4","5","6","7","8","9"}

Range(s) == { s[k] : k \in DOMAIN s }

\* the code unit U+212A (KELVIN SIGN): no ASCII letter, but its lower case is k
KelvinSign == "<U+212A>"

\* an ASCII letter in lower case, any other character unchanged
FoldChar(c) ==
  IF \E k \in DOMAIN UpperLetters : UpperLetters[k] = c
  THEN LowerLetters[CHOOSE k \in DOMAIN UpperLetters : UpperLetters[k] = c]
  ELSE c

\* String.prototype.toLowerCase on one character
LowerChar(c) == IF c = KelvinSign THEN "k" ELSE FoldChar(c)

toLowerCase(s) == [k \in DOMAIN s |-> LowerChar(s[k])]

\* the character class [a-z0-9] under the i flag
IsAlnumCI(c) == FoldChar(c) \in Range(LowerLetters) \cup Digits

\* .replace(/[^a-z0-9]/gi, "_")
ReplaceNonAlnum(s) == [k \in DOMAIN s |-> IF IsAlnumCI(s[k]) THEN s[k] ELSE "_"]

\* .replace(/_+/g, "_")
RECURSIVE CollapseUnderscores(_)
CollapseUnderscores(s) ==
  IF Len(s) < 2 THEN s
  ELSE IF s[1] = "_" /\ s[2] = "_"
       THEN CollapseUnderscores(Tail(s))
       ELSE <<s[1]>> \o CollapseUnderscores(Tail(s))

\* StripEnds stripping the leading underscore only
StripEnds_LeadingOnly(s) == IF s # <<>> /\ s[1] = "_" THEN Tail(s) ELSE s

\* .replace(/^_|_$/g, "")
StripEnds(s) ==
  LET s1 == IF s # <<>> /\ s[1] = "_" THEN Tail(s) ELSE s
  IN  IF s1 # <<>> /\ s1[Len(s1)] = "_" THEN SubSeq(s1, 1, Len(s1) - 1) ELSE s1

sanitizeFilename(name) ==
  toLowerCase(StripEnds(CollapseUnderscores(ReplaceNonAlnum(name))))

\* `certificate_${sanitizeFilename(recipient.name)}.png`
Filename(name) ==
  <<"c","e","r","t","i","f","i","c","a","t","e","_">>
    \o sanitizeFilename(name) \o <<".","p","n","g">>

\* the value of an absent optional property
Undefined == << "<undefined>" >>

\* v || ""
OrEmpty(v) == IF v = Undefined THEN <<>> ELSE v

\* ------------------------------------------------------------------------
\* replacePlaceholders
\* ------------------------------------------------------------------------

\* a pattern character matches a text character under the i flag; a "."
\* (it can only come from a customFields key, pasted unescaped) matches any
\* character but a line terminator
CharMatches(c, p) ==
  IF p = "." THEN c \notin {"\n", "\r"} ELSE FoldChar(c) = FoldChar(p)

\* the pattern pat matches text at position k
MatchesAt(text, k, pat) ==
  /\ k + Len(pat) - 1 <= Len(text)
  /\ \A j \in 1..Len(pat) : CharMatches(text[k + j - 1], pat[j])

\* the replacement string of String.prototype.replace, for the match of
\* length n at position k of text: $$, $&, $` and $' are substitution
\* patterns, any other character stands for itself
RECURSIVE ExpandReplacement(_, _, _, _, _)
ExpandReplacement(rep, j, text, k, n) ==
  IF j > Len(rep) THEN <<>>
  ELSE IF rep[j] = "$" /\ j < Len(rep) /\ rep[j + 1] \in {"$", "&", "`", "'"}
       THEN (CASE rep[j + 1] = "$" -> <<"$">>
               [] rep[j + 1] = "&" -> SubSeq(text, k, k + n - 1)
               [] rep[j + 1] = "`" -> SubSeq(text, 1, k - 1)
               [] rep[j + 1] = "'" -> SubSeq(text, k + n, Len(text)))
            \o ExpandReplacement(rep, j + 2, text, k, n)
       ELSE <<rep[j]>> \o ExpandReplacement(rep, j + 1, text, k, n)

\* text.replace(new RegExp(pat, "gi"), rep) for a literal pattern, from k on
RECURSIVE ReplaceFrom(_, _, _, _)
ReplaceFrom(text, k, pat, rep) ==
  IF k > Len(text) THEN <<>>
  ELSE IF MatchesAt(text, k, pat)
       THEN ExpandReplacement(rep, 1, text, k, Len(pat))
              \o ReplaceFrom(text, k + Len(pat), pat, rep)
       ELSE <<text[k]>> \o ReplaceFrom(text, k + 1, pat, rep)

ReplaceAllCI(text, pat, rep) == ReplaceFrom(text, 1, pat, rep)

\* the pattern \{\{key\}\}
Token(key) == <<"{", "{">> \o key \o <<"}", "}">>

\* new RegExp(`\\{\\{${key}\\}\\}`, "gi") throws a SyntaxError when the key,
\* pasted unescaped into the pattern, opens a group it never closes
RegExpThrows(key) ==
  \E k \in DOMAIN key :
    /\ key[k] = "("
    /\ \A j \in (k + 1)..Len(key) : key[j] # ")"

\* the loop over Object.entries(recipient.customFields), from entry k on
RECURSIVE ReplaceCustom(_, _, _)
ReplaceCustom(text, fields, k) ==
  IF k > Len(fields) THEN text
  ELSE ReplaceCustom(ReplaceAllCI(text, Token(fields[k][1]), fields[k][2]),
                     fields, k + 1)

replacePlaceholders(text, recipient) ==
  LET r1 == ReplaceAllCI(text, Token(<<"n","a","m","e">>), recipient.name)
      r2 == ReplaceAllCI(r1, Token(<<"t","i","t","l","e">>), OrEmpty(recipient.title))
      r3 == ReplaceAllCI(r2, Token(<<"d","a","t","e">>), OrEmpty(recipient.date))
  IN  ReplaceCustom(r3, recipient.customFields, 1)

\* replacePlaceholders throws instead of returning
replacePlaceholdersThrows(recipient) ==
  \E k \in DOMAIN recipient.customFields : RegExpThrows(recipient.customFields[k][1])

\* ------------------------------------------------------------------------
\* Inputs of a run
\* ------------------------------------------------------------------------

\* BatchRecipient values: a name, optional title and date, and customFields
\* as the list of its entries in Object.entries order
Recipient(name, title, date, fields) ==
  [name |-> name, title |-> title, date |-> date, customFields |-> fields]

RecipientPool ==
  { Recipient(<<"A","n","n">>, <<"D","r">>, Undefined, <<>>),
    Recipient(<<"a","n","n","!">>, Undefined, Undefined, <<>>),
    Recipient(<<"B","o">>, Undefined, Undefined, << << <<"o","r","g">>, <<"X">> >> >>),
    Recipient(<<"!","!">>, Undefined, Undefined, <<>>),
    Recipient(<<"C","y">>, Undefined, Undefined, << << <<"(">>, <<"x">> >> >>) }

RecipientLists ==
  UNION { [1..n -> RecipientPool] : n \in 0..MaxRecipients }

\* CertificateTemplate
Template ==
  [id |-> "tpl", backgroundImage |-> <<"b","g">>, width |-> 800, height |-> 600]

\* TextElement[]
TextElements ==
  << [id |-> "t1", text |-> Token(<<"N","a","m","e">>),
      position |-> [x |-> 10, y |-> 10], fontSize |-> 24, fontFamily |-> "serif",
      color |-> "#000", fontWeight |-> "bold", fontStyle |-> "normal",
      textAlign |-> "center"],
     [id |-> "t2", text |-> Token(<<"t","i","t","l","e">>) \o <<" ">> \o Token(<<"o","r","g">>),
      position |-> [x |-> 10, y |-> 40], fontSize |-> 12, fontFamily |-> "serif",
      color |-> "#333", fontWeight |-> "normal", fontStyle |-> "italic",
      textAlign |-> "left"] >>

ImageSources == { <<"l","o","g","o">>, <<"s","i","g">> }

\* ImageElement[] of n elements; ids are unique, sources may repeat
ImageElementLists ==
  UNION { { [k \in 1..n |->
              [id |-> k, src |-> srcs[k], position |-> [x |-> 5 * k, y |-> 5],
               width |-> 50, height |-> 20, type |-> "custom"]]
            : srcs \in [1..n -> ImageSources] }
          : n \in 0..MaxOverlays }

\* ------------------------------------------------------------------------
\* Errors
\* ------------------------------------------------------------------------

\* a thrown value: an Error object with its message, or something else
ErrorOf(message) == [isError |-> TRUE, message |-> message]

\* new Error(`Failed to load image: ${src}`)
LoadError(src) ==
  ErrorOf(<<"F","a","i","l","e","d"," ","t","o"," ","l","o","a","d"," ",
            "i","m","a","g","e",":"," ">> \o src)

\* new Error("Failed to convert canvas to blob")
BlobError ==
  ErrorOf(<<"F","a","i","l","e","d"," ","t","o"," ","c","o","n","v","e","r","t"," ",
            "c","a","n","v","a","s"," ","t","o"," ","b","l","o","b">>)

\* the SyntaxError of new RegExp
RegExpError == ErrorOf(<<"S","y","n","t","a","x","E","r","r","o","r">>)

\* what JSZip may throw or reject with: an Error, or a value that is none
ZipErrors ==
  { ErrorOf(<<"z","i","p">>), [isError |-> FALSE, message |-> Undefined] }

\* error instanceof Error ? error.message : "Unknown error occurred"
ErrorMessage(err) ==
  IF err.isError THEN err.message
  ELSE <<"U","n","k","n","o","w","n"," ","e","r","r","o","r"," ",
         "o","c","c","u","r","r","e","d">>

\* ------------------------------------------------------------------------
\* BatchProgress
\* ------------------------------------------------------------------------

\* { total: recipients.length, current: 0, status: "processing" }
InitProgress(n) ==
  [total |-> n, current |-> 0, currentName |-> Undefined,
   status |-> "processing", error |-> Undefined]

\* IterProgress without the update of current
IterProgress_KeepsCurrent(p, idx, name) == [p EXCEPT !.currentName = name]

\* IterProgress counting recipients from 1
IterProgress_OneBased(p, idx, name) ==
  [p EXCEPT !.current = idx + 1, !.currentName = name]

\* progress.current = i; progress.currentName = recipient.name
IterProgress(p, idx, name) == [p EXCEPT !.current = idx, !.currentName = name]

\* CompleteProgress resetting the counter
CompleteProgress_Resets(p, n) == [p EXCEPT !.current = 0, !.status = "complete"]

\* progress.current = recipients.length; progress.status = "complete"
CompleteProgress(p, n) == [p EXCEPT !.current = n, !.status = "complete"]

\* ErrorProgress recording the message but not the status
ErrorProgress_NoStatus(p, err) == [p EXCEPT !.error = ErrorMessage(err)]

\* progress.status = "error"; progress.error = message of the caught value
ErrorProgress(p, err) == [p EXCEPT !.status = "error", !.error = ErrorMessage(err)]

\* onProgress(progress): the caller receives the live object
EmitReference(ev, p) == Append(ev, [live |-> TRUE, val |-> p])

\* onProgress({ ...progress }): the caller receives a copy
EmitCopy(ev, p) == Append(ev, [live |-> FALSE, val |-> p])

\* ------------------------------------------------------------------------
\* The canvas and renderCertificate
\* ------------------------------------------------------------------------

\* document.createElement("canvas"): 300 x 150, blank.  ops are the draw
\* calls that reached the bitmap since it was last blank.
NewCanvas == [width |-> 300, height |-> 150, ops |-> <<>>]

\* canvas.width = w; canvas.height = h (assigning a dimension blanks the bitmap)
Resize(cv, w, h) == [width |-> w, height |-> h, ops |-> <<>>]

\* ctx.clearRect(0, 0, canvas.width, canvas.height)
ClearRect(cv) == [cv EXCEPT !.ops = <<>>]

DrawImage(cv, img, x, y, w, h) ==
  [cv EXCEPT !.ops = Append(@, [op |-> "drawImage", img |-> img, x |-> x, y |-> y,
                                width |-> w, height |-> h])]

FillText(cv, element, text) ==
  [cv EXCEPT !.ops = Append(@,
     [op |-> "fillText", text |-> text, x |-> element.position.x, y |-> element.position.y,
      font |-> <<element.fontStyle, element.fontWeight, element.fontSize, element.fontFamily>>,
      fillStyle |-> element.color, textAlign |-> element.textAlign,
      textBaseline |-> "top"])]

\* loadedImages.elements.forEach(...), from element k on
RECURSIVE DrawImageElements(_, _, _)
DrawImageElements(cv, elements, k) ==
  IF k > Len(elements) THEN cv
  ELSE DrawImageElements(
         DrawImage(cv, elements[k].img, elements[k].element.position.x,
                   elements[k].element.position.y, elements[k].element.width,
                   elements[k].element.height),
         elements, k + 1)

\* textElements.forEach(...), from element k on
RECURSIVE DrawTextElements(_, _, _, _)
DrawTextElements(cv, txts, recipient, k) ==
  IF k > Len(txts) THEN cv
  ELSE DrawTextElements(
         FillText(cv, txts[k], replacePlaceholders(txts[k].text, recipient)),
         txts, recipient, k + 1)

\* renderCertificate throws: the first text element's substitution throws
renderThrows(txts, recipient) ==
  txts # <<>> /\ replacePlaceholdersThrows(recipient)

\* renderCertificate without the clearRect
renderCertificate_NoClear(cv, tpl, txts, loaded, recipient) ==
  LET withBg  == DrawImage(cv, loaded.template, 0, 0, tpl.width, tpl.height)
      withImg == DrawImageElements(withBg, loaded.elements, 1)
  IN  IF renderThrows(txts, recipient) THEN withImg
      ELSE DrawTextElements(withImg, txts, recipient, 1)

\* the canvas renderCertificate leaves behind, whether it returns or throws
renderCertificate(cv, tpl, txts, loaded, recipient) ==
  LET cleared == ClearRect(cv)
      withBg  == DrawImage(cleared, loaded.template, 0, 0, tpl.width, tpl.height)
      withImg == DrawImageElements(withBg, loaded.elements, 1)
  IN  IF renderThrows(txts, recipient) THEN withImg
      ELSE DrawTextElements(withImg, txts, recipient, 1)

\* canvas.toBlob(..., "image/png", 1.0): the bitmap as it is when toBlob is called
EncodePng(cv) == [type |-> "image/png", width |-> cv.width, height |-> cv.height,
                  bitmap |-> cv.ops]

\* canvas.toDataURL("image/png"): the bitmap as it is, as a data URL
ToDataURL(cv) == [scheme |-> "data:image/png;base64", frame |-> EncodePng(cv)]

\* zip.file keeping the entry a name already has
ZipFile_KeepsFirst(z, filename, blob) ==
  [f \in DOMAIN z \cup {filename} |-> IF f \in DOMAIN z THEN z[f] ELSE blob]

\* zip.file(filename, blob): an entry of that name is replaced
ZipFile(z, filename, blob) ==
  [f \in DOMAIN z \cup {filename} |-> IF f = filename THEN blob ELSE z[f]]

\* new JSZip()
NewZip == [f \in {} |-> {}]

\* ------------------------------------------------------------------------
\* State
\* ------------------------------------------------------------------------

VARIABLES
  pc,            \* position of the generateBatch call
  recipients,    \* arguments of the call
  template,
  textElements,
  imageElements,
  onProgress,    \* TRUE when the caller passed a callback
  canvas,        \* this.canvas
  progress,      \* the progress object of the call
  events,        \* what onProgress received, in order
  bgLoad,        \* state of the background's loadImage promise
  elemLoad,      \* state of each image element's loadImage promise
  loadedImages,
  i,             \* the loop variable
  zip,           \* the JSZip instance, file name -> blob
  blob,          \* the frame toBlob is encoding
  downloads,     \* archives handed to the browser by link.click()
  thrown,        \* <<e>> once the call has rejected with e
  log,           \* calls made to the collaborators, in order
  first,         \* <<outcome>> of the first call once a second one was made
  preview,       \* the generatePreview call made on the same generator
  call,          \* a call of one of the module's functions: its arguments
  result         \* <<value>> once that call has returned or thrown

vars == << pc, recipients, template, textElements, imageElements, onProgress,
           canvas, progress, events, bgLoad, elemLoad, loadedImages, i, zip,
           blob, downloads, thrown, log, first, preview, call, result >>

\* what a step of generateBatch never touches
other == << first, preview, call, result >>

\* the locals templateImg and blob before they are assigned
NoImage == [src |-> Undefined]
NoBlob  == [type |-> "none"]

\* no generatePreview call
NoPreview == [pc |-> "idle"]

\* no function call
NoCall == [fn |-> "none"]

args == << recipients, template, textElements, imageElements, onProgress >>

Init ==
  /\ pc = "idle"
  /\ recipients = <<>>
  /\ template = Template
  /\ textElements = <<>>
  /\ imageElements = <<>>
  /\ onProgress = FALSE
  /\ canvas = NewCanvas
  /\ progress = InitProgress(0)
  /\ events = <<>>
  /\ bgLoad = "none"
  /\ elemLoad = <<>>
  /\ loadedImages = [template |-> NoImage, elements |-> <<>>]
  /\ i = 0
  /\ zip = NewZip
  /\ blob = NoBlob
  /\ downloads = <<>>
  /\ thrown = <<>>
  /\ log = <<>>
  /\ first = <<>>
  /\ preview = NoPreview
  /\ call = NoCall
  /\ result = <<>>

\* the decoded image of a source
ImageOf(src) == [src |-> src]

\* log entries
LogEmit(p)        == [op |-> "onProgress", current |-> p.current, status |-> p.status]
LogLoad(src)      == [op |-> "loadImage", src |-> src]
LogRender(idx)    == [op |-> "renderCertificate", index |-> idx]
LogToBlob(idx)    == [op |-> "toBlob", index |-> idx]
LogFile(idx, f)   == [op |-> "zip.file", index |-> idx, name |-> f]
LogGenerate       == [op |-> "zip.generateAsync"]
LogClick          == [op |-> "link.click"]

\* the catch block (lines 341-349), entered with progress p, events ev and
\* log lg when err is caught: mark, emit a copy, rethrow
Catch(p, ev, lg, err) ==
  LET q == ErrorProgress(p, err)
  IN  /\ progress' = q
      /\ events' = IF onProgress THEN EmitCopy(ev, q) ELSE ev
      /\ log' = IF onProgress THEN Append(lg, LogEmit(q)) ELSE lg
      /\ thrown' = <<err>>
      /\ pc' = "rejected"

\* the for loop from its test with loop variable idx (lines 289-308), or the
\* code after the loop up to the await of generateAsync (lines 318-330)
Iterate(idx, lg, loaded) ==
  /\ i' = idx
  /\ IF idx < Len(recipients)
     THEN LET recipient == recipients[idx + 1]
              p  == IterProgress(progress, idx, recipient.name)
              ev == IF onProgress THEN EmitCopy(events, p) ELSE events
              l1 == IF onProgress THEN Append(lg, LogEmit(p)) ELSE lg
              l2 == Append(l1, LogRender(idx))
          IN  /\ canvas' = renderCertificate(canvas, template, textElements,
                                             loaded, recipient)
              /\ IF renderThrows(textElements, recipient)
                 THEN Catch(p, ev, l2, RegExpError)
                 ELSE /\ progress' = p
                      /\ events' = ev
                      /\ log' = l2
                      /\ pc' = "awaitRender"
                      /\ UNCHANGED thrown
     ELSE LET p  == CompleteProgress(progress, Len(recipients))
              ev == IF onProgress THEN EmitCopy(events, p) ELSE events
              l1 == IF onProgress THEN Append(lg, LogEmit(p)) ELSE lg
          IN  /\ progress' = p
              /\ events' = ev
              /\ log' = Append(l1, LogGenerate)
              /\ pc' = "awaitArchive"
              /\ UNCHANGED << canvas, thrown >>

\* ------------------------------------------------------------------------
\* Steps of generateBatch
\* ------------------------------------------------------------------------

\* the call, up to the first await (lines 256-272)
GenerateBatch(rs, tpl, txts, imgs, cb) ==
  /\ pc = "idle"
  /\ recipients' = rs
  /\ template' = tpl
  /\ textElements' = txts
  /\ imageElements' = imgs
  /\ onProgress' = cb
  /\ canvas' = Resize(canvas, tpl.width, tpl.height)
  /\ progress' = InitProgress(Len(rs))
  /\ events' = IF cb THEN EmitReference(events, progress') ELSE events
  /\ log' = (IF cb THEN Append(log, LogEmit(progress')) ELSE log)
              \o << LogLoad(tpl.backgroundImage) >>
  /\ bgLoad' = "pending"
  /\ pc' = "awaitBackground"
  /\ UNCHANGED << elemLoad, loadedImages, i, zip, blob, downloads, thrown >>
  /\ UNCHANGED other

\* the background's onload: the overlay loads are started (lines 272-278)
BackgroundLoaded ==
  /\ pc = "awaitBackground"
  /\ bgLoad' = "loaded"
  /\ elemLoad' = [k \in DOMAIN imageElements |-> "pending"]
  /\ log' = log \o [k \in DOMAIN imageElements |-> LogLoad(imageElements[k].src)]
  /\ pc' = "awaitOverlays"
  /\ UNCHANGED << args, canvas, progress, events, loadedImages, i, zip, blob,
                  downloads, thrown >>
  /\ UNCHANGED other

\* the background's onerror
BackgroundFailed ==
  /\ pc = "awaitBackground"
  /\ bgLoad' = "failed"
  /\ Catch(progress, events, log, LoadError(template.backgroundImage))
  /\ UNCHANGED << args, canvas, elemLoad, loadedImages, i, zip, blob, downloads >>
  /\ UNCHANGED other

\* onload of image element k
OverlayLoaded(k) ==
  /\ k \in DOMAIN elemLoad
  /\ elemLoad[k] = "pending"
  /\ elemLoad' = [elemLoad EXCEPT ![k] = "loaded"]
  /\ UNCHANGED << pc, args, canvas, progress, events, bgLoad, loadedImages, i, zip,
                  blob, downloads, thrown, log >>
  /\ UNCHANGED other

\* OverlayFailed where the failed load is not noticed by the run
OverlayFailed_Ignored(k) ==
  /\ k \in DOMAIN elemLoad
  /\ elemLoad[k] = "pending"
  /\ elemLoad' = [elemLoad EXCEPT ![k] = "failed"]
  /\ UNCHANGED << pc, args, canvas, progress, events, bgLoad, loadedImages, i, zip,
                  blob, downloads, thrown, log >>
  /\ UNCHANGED other

\* onerror of image element k: Promise.all rejects with the first failure;
\* a failure after the call has rejected changes nothing
OverlayFailed(k) ==
  /\ k \in DOMAIN elemLoad
  /\ elemLoad[k] = "pending"
  /\ elemLoad' = [elemLoad EXCEPT ![k] = "failed"]
  /\ IF pc = "awaitOverlays"
     THEN Catch(progress, events, log, LoadError(imageElements[k].src))
     ELSE UNCHANGED << pc, progress, events, thrown, log >>
  /\ UNCHANGED << args, canvas, bgLoad, loadedImages, i, zip, blob, downloads >>
  /\ UNCHANGED other

\* Promise.all resolves: the archive is created and the loop entered
\* (lines 280-308)
OverlaysReady ==
  /\ pc = "awaitOverlays"
  /\ \A k \in DOMAIN elemLoad : elemLoad[k] = "loaded"
  /\ loadedImages' =
       [template |-> ImageOf(template.backgroundImage),
        elements |-> [k \in DOMAIN imageElements |->
                        [element |-> imageElements[k],
                         img |-> ImageOf(imageElements[k].src)]]]
  /\ zip' = NewZip
  /\ Iterate(0, log, loadedImages')
  /\ UNCHANGED << args, bgLoad, elemLoad, blob, downloads >>
  /\ UNCHANGED other

\* renderCertificate's promise is awaited: toBlob is called (lines 300-311)
RenderReturned ==
  /\ pc = "awaitRender"
  /\ blob' = EncodePng(canvas)
  /\ log' = Append(log, LogToBlob(i))
  /\ pc' = "awaitBlob"
  /\ UNCHANGED << args, canvas, progress, events, bgLoad, elemLoad, loadedImages,
                  i, zip, downloads, thrown >>
  /\ UNCHANGED other

\* BlobResolved going through the same recipient again
BlobResolved_Repeats ==
  /\ pc = "awaitBlob"
  /\ zip' = ZipFile(zip, Filename(recipients[i + 1].name), blob)
  /\ Iterate(i, Append(log, LogFile(i, Filename(recipients[i + 1].name))),
             loadedImages)
  /\ UNCHANGED << args, bgLoad, elemLoad, loadedImages, blob, downloads >>
  /\ UNCHANGED other

\* toBlob's callback receives the blob: it is added to the archive and the
\* loop goes on (lines 311-316, then the loop or lines 318-330)
BlobResolved ==
  /\ pc = "awaitBlob"
  /\ zip' = ZipFile(zip, Filename(recipients[i + 1].name), blob)
  /\ Iterate(i + 1, Append(log, LogFile(i, Filename(recipients[i + 1].name))),
             loadedImages)
  /\ UNCHANGED << args, bgLoad, elemLoad, loadedImages, blob, downloads >>
  /\ UNCHANGED other

\* BlobFailed where the loop goes on with the next recipient
BlobFailed_Skips ==
  /\ pc = "awaitBlob"
  /\ Iterate(i + 1, log, loadedImages)
  /\ UNCHANGED << args, bgLoad, elemLoad, loadedImages, zip, blob, downloads >>
  /\ UNCHANGED other

\* toBlob's callback receives null
BlobFailed ==
  /\ pc = "awaitBlob"
  /\ Catch(progress, events, log, BlobError)
  /\ UNCHANGED << args, canvas, bgLoad, elemLoad, loadedImages, i, zip, blob,
                  downloads >>
  /\ UNCHANGED other

\* zip.file throws
InsertFailed(err) ==
  /\ pc = "awaitBlob"
  /\ Catch(progress, events,
           Append(log, LogFile(i, Filename(recipients[i + 1].name))), err)
  /\ UNCHANGED << args, canvas, bgLoad, elemLoad, loadedImages, i, zip, blob,
                  downloads >>
  /\ UNCHANGED other

\* generateAsync resolves: the archive is downloaded (lines 332-340)
ArchiveGenerated ==
  /\ pc = "awaitArchive"
  /\ downloads' = Append(downloads, zip)
  /\ log' = Append(log, LogClick)
  /\ pc' = "resolved"
  /\ UNCHANGED << args, canvas, progress, events, bgLoad, elemLoad, loadedImages,
                  i, zip, blob, thrown >>
  /\ UNCHANGED other

\* ArchiveFailed where the download was triggered before the failure surfaced
ArchiveFailed_Downloads(err) ==
  /\ pc = "awaitArchive"
  /\ downloads' = Append(downloads, zip)
  /\ Catch(progress, events, Append(log, LogClick), err)
  /\ UNCHANGED << args, canvas, bgLoad, elemLoad, loadedImages, i, zip, blob >>
  /\ UNCHANGED other

\* generateAsync rejects
ArchiveFailed(err) ==
  /\ pc = "awaitArchive"
  /\ Catch(progress, events, log, err)
  /\ UNCHANGED << args, canvas, bgLoad, elemLoad, loadedImages, i, zip, blob,
                  downloads >>
  /\ UNCHANGED other

Next ==
  \/ \E rs \in RecipientLists, imgs \in ImageElementLists, cb \in BOOLEAN :
       GenerateBatch(rs, Template, TextElements, imgs, cb)
  \/ BackgroundLoaded
  \/ BackgroundFailed
  \/ \E k \in 1..MaxOverlays : OverlayLoaded(k)
  \/ \E k \in 1..MaxOverlays : OverlayFailed(k)
  \/ OverlaysReady
  \/ RenderReturned
  \/ BlobResolved
  \/ BlobFailed
  \/ \E err \in ZipErrors : InsertFailed(err)
  \/ ArchiveGenerated
  \/ \E err \in ZipErrors : ArchiveFailed(err)

Spec == Init /\ [][Next]_vars

\* where the call waits: for an image load, for the continuation of an await,
\* for toBlob's callback, for generateAsync
AwaitPositions ==
  { "awaitBackground", "awaitOverlays", "awaitRender", "awaitBlob", "awaitArchive" }

\* the call gets past the await it is at
Leaves(at) ==
  /\ pc = at
  /\ pc' \in (AwaitPositions \cup { "resolved", "rejected" }) \ { at }

\* every image load, every toBlob and generateAsync settles, and the
\* continuations of the awaits are run: the call does not stay at an await
\* for ever
Fairness == \A at \in AwaitPositions : WF_pc(Leaves(at))

SpecLive == Init /\ [][Next]_vars /\ Fairness

\* ------------------------------------------------------------------------
\* A second generateBatch call on the same generator
\* ------------------------------------------------------------------------

\* what the caller has from a call that has resolved, and the surface the
\* call left in the generator
Outcome == [events |-> events, downloads |-> downloads, canvas |-> canvas]

\* GenerateBatchAgain with the progress object of the call before
GenerateBatchAgain_KeepsProgress ==
  /\ pc = "resolved"
  /\ first = <<>>
  /\ first' = << Outcome >>
  /\ canvas' = Resize(canvas, template.width, template.height)
  /\ progress' = [progress EXCEPT !.total = Len(recipients)]
  /\ events' = IF onProgress THEN EmitReference(<<>>, progress') ELSE <<>>
  /\ log' = (IF onProgress THEN << LogEmit(progress') >> ELSE <<>>)
              \o << LogLoad(template.backgroundImage) >>
  /\ bgLoad' = "pending"
  /\ thrown' = <<>>
  /\ pc' = "awaitBackground"
  /\ UNCHANGED << args, elemLoad, loadedImages, i, zip, blob, downloads >>
  /\ UNCHANGED << preview, call, result >>

\* generateBatch is called again with the same arguments once the first call
\* has resolved (lines 256-272): the generator's canvas is the one the first
\* call drew on, progress is a new object, and the caller records the events
\* and the rejection of this call from scratch
GenerateBatchAgain ==
  /\ pc = "resolved"
  /\ first = <<>>
  /\ first' = << Outcome >>
  /\ canvas' = Resize(canvas, template.width, template.height)
  /\ progress' = InitProgress(Len(recipients))
  /\ events' = IF onProgress THEN EmitReference(<<>>, progress') ELSE <<>>
  /\ log' = (IF onProgress THEN << LogEmit(progress') >> ELSE <<>>)
              \o << LogLoad(template.backgroundImage) >>
  /\ bgLoad' = "pending"
  /\ thrown' = <<>>
  /\ pc' = "awaitBackground"
  /\ UNCHANGED << args, elemLoad, loadedImages, i, zip, blob, downloads >>
  /\ UNCHANGED << preview, call, result >>

NextTwice ==
  \/ Next
  \/ GenerateBatchAgain

SpecTwice == Init /\ [][NextTwice]_vars

\* ------------------------------------------------------------------------
\* generatePreview called on the same generator while generateBatch runs
\* ------------------------------------------------------------------------

\* a template of another size
PreviewTemplate ==
  [id |-> "small", backgroundImage |-> <<"b","g">>, width |-> 400, height |-> 300]

PreviewRecipient == Recipient(<<"A","n","n">>, <<"D","r">>, Undefined, <<>>)

\* what generatePreview never touches: all of generateBatch's state but
\* this.canvas
notCanvas == << pc, recipients, template, textElements, imageElements,
                onProgress, progress, events, bgLoad, elemLoad, loadedImages, i,
                zip, blob, downloads, thrown, log, first, call, result >>

\* generatePreview's code runs as a task of its own: generateBatch is not
\* between renderCertificate's return and toBlob, which only a microtask
\* separates
PreviewMayRun == pc # "awaitRender"

\* the call, up to the first await (lines 362-366)
GeneratePreview(recipient, tpl, txts, imgs) ==
  /\ PreviewMayRun
  /\ preview = NoPreview
  /\ canvas' = Resize(canvas, tpl.width, tpl.height)
  /\ preview' = [pc |-> "awaitBackground", recipient |-> recipient,
                 template |-> tpl, textElements |-> txts, imageElements |-> imgs,
                 elemLoad |-> <<>>, settled |-> <<>>]
  /\ UNCHANGED notCanvas

\* PreviewBackgroundLoaded drawing the background as soon as it has loaded
PreviewBackgroundLoaded_Draws ==
  /\ PreviewMayRun
  /\ preview.pc = "awaitBackground"
  /\ preview' = [preview EXCEPT
                   !.pc = "awaitOverlays",
                   !.elemLoad = [k \in DOMAIN preview.imageElements |-> "pending"]]
  /\ canvas' = DrawImage(canvas, ImageOf(preview.template.backgroundImage), 0, 0,
                         preview.template.width, preview.template.height)
  /\ UNCHANGED notCanvas

\* the background's onload: the overlay loads are started (lines 366-372)
PreviewBackgroundLoaded ==
  /\ PreviewMayRun
  /\ preview.pc = "awaitBackground"
  /\ preview' = [preview EXCEPT
                   !.pc = "awaitOverlays",
                   !.elemLoad = [k \in DOMAIN preview.imageElements |-> "pending"]]
  /\ UNCHANGED canvas
  /\ UNCHANGED notCanvas

\* the background's onerror: generatePreview rejects
PreviewBackgroundFailed ==
  /\ PreviewMayRun
  /\ preview.pc = "awaitBackground"
  /\ preview' = [preview EXCEPT
                   !.pc = "rejected",
                   !.settled = << LoadError(preview.template.backgroundImage) >>]
  /\ UNCHANGED canvas
  /\ UNCHANGED notCanvas

\* onload of the preview's image element k
PreviewOverlayLoaded(k) ==
  /\ PreviewMayRun
  /\ preview.pc = "awaitOverlays"
  /\ k \in DOMAIN preview.elemLoad
  /\ preview.elemLoad[k] = "pending"
  /\ preview' = [preview EXCEPT !.elemLoad[k] = "loaded"]
  /\ UNCHANGED canvas
  /\ UNCHANGED notCanvas

\* onerror of the preview's image element k: Promise.all rejects
PreviewOverlayFailed(k) ==
  /\ PreviewMayRun
  /\ preview.pc = "awaitOverlays"
  /\ k \in DOMAIN preview.elemLoad
  /\ preview.elemLoad[k] = "pending"
  /\ preview' = [preview EXCEPT
                   !.pc = "rejected",
                   !.elemLoad[k] = "failed",
                   !.settled = << LoadError(preview.imageElements[k].src) >>]
  /\ UNCHANGED canvas
  /\ UNCHANGED notCanvas

\* Promise.all resolves: the certificate is rendered on this.canvas and its
\* data URL returned (lines 374-391); only microtasks separate the two
PreviewRendered ==
  /\ PreviewMayRun
  /\ preview.pc = "awaitOverlays"
  /\ \A k \in DOMAIN preview.elemLoad : preview.elemLoad[k] = "loaded"
  /\ canvas' = renderCertificate(
                 canvas, preview.template, preview.textElements,
                 [template |-> ImageOf(preview.template.backgroundImage),
                  elements |-> [k \in DOMAIN preview.imageElements |->
                                  [element |-> preview.imageElements[k],
                                   img |-> ImageOf(preview.imageElements[k].src)]]],
                 preview.recipient)
  /\ preview' = IF renderThrows(preview.textElements, preview.recipient)
                THEN [preview EXCEPT !.pc = "rejected", !.settled = << RegExpError >>]
                ELSE [preview EXCEPT !.pc = "returned",
                                     !.settled = << ToDataURL(canvas') >>]
  /\ UNCHANGED notCanvas

NextOverlap ==
  \/ Next
  \/ \E tpl \in { Template, PreviewTemplate }, imgs \in ImageElementLists :
       GeneratePreview(PreviewRecipient, tpl, TextElements, imgs)
  \/ PreviewBackgroundLoaded
  \/ PreviewBackgroundFailed
  \/ \E k \in 1..MaxOverlays : PreviewOverlayLoaded(k)
  \/ \E k \in 1..MaxOverlays : PreviewOverlayFailed(k)
  \/ PreviewRendered

SpecOverlap == Init /\ [][NextOverlap]_vars

\* ------------------------------------------------------------------------
\* generateBatch with image elements that share a source
\* ------------------------------------------------------------------------

\* ImageElement[]: a logo placed twice
SharedSourceElements ==
  [k \in 1..2 |->
     [id |-> k, src |-> <<"l","o","g","o">>, position |-> [x |-> 5 * k, y |-> 5],
      width |-> 50, height |-> 20, type |-> "custom"]]

NextShared ==
  \/ \E rs \in RecipientLists, cb \in BOOLEAN :
       GenerateBatch(rs, Template, TextElements, SharedSourceElements, cb)
  \/ BackgroundLoaded
  \/ BackgroundFailed
  \/ \E k \in DOMAIN SharedSourceElements : OverlayLoaded(k)
  \/ \E k \in DOMAIN SharedSourceElements : OverlayFailed(k)
  \/ OverlaysReady
  \/ RenderReturned
  \/ BlobResolved
  \/ BlobFailed
  \/ \E err \in ZipErrors : InsertFailed(err)
  \/ ArchiveGenerated
  \/ \E err \in ZipErrors : ArchiveFailed(err)

SpecShared == Init /\ [][NextShared]_vars

\* ------------------------------------------------------------------------
\* The module's functions called on their own
\* ------------------------------------------------------------------------

\* all strings over chars of length at most n
RECURSIVE StringsUpTo(_, _)
StringsUpTo(chars, n) ==
  IF n = 0 THEN { <<>> }
  ELSE LET shorter == StringsUpTo(chars, n - 1)
       IN  shorter \cup { Append(w, c) : w \in shorter, c \in chars }

\* names handed to sanitizeFilename
SanitizeChars == { "a", "B", "7", "_", "!", KelvinSign }

SanitizeCalls ==
  { [fn |-> "sanitizeFilename", name |-> n] : n \in StringsUpTo(SanitizeChars, MaxNameLen) }

\* the generator as constructed, no generateBatch call made
BatchIdle ==
  /\ pc = "idle"
  /\ recipients = <<>>
  /\ template = Template
  /\ textElements = <<>>
  /\ imageElements = <<>>
  /\ onProgress = FALSE
  /\ canvas = NewCanvas
  /\ progress = InitProgress(0)
  /\ events = <<>>
  /\ bgLoad = "none"
  /\ elemLoad = <<>>
  /\ loadedImages = [template |-> NoImage, elements |-> <<>>]
  /\ i = 0
  /\ zip = NewZip
  /\ blob = NoBlob
  /\ downloads = <<>>
  /\ thrown = <<>>
  /\ log = <<>>

batch == << pc, recipients, template, textElements, imageElements, onProgress,
            canvas, progress, events, bgLoad, elemLoad, loadedImages, i, zip,
            blob, downloads, thrown, log >>

\* sanitizeFilename(name) returns
Sanitize ==
  /\ call.fn = "sanitizeFilename"
  /\ result = <<>>
  /\ result' = << sanitizeFilename(call.name) >>
  /\ UNCHANGED << batch, first, preview, call >>

\* recipients handed to replacePlaceholders: names, titles, dates and
\* customFields that are plain, that carry a substitution pattern of
\* String.prototype.replace, that look like a token, that use a standard
\* key, or whose key is not a literal pattern
PlainRecipients ==
  { Recipient(n, t, d, f) :
      n \in { <<"A","n","n">>, <<"$","&">>, Token(<<"t","i","t","l","e">>) },
      t \in { Undefined, <<"D","r">>, <<"$","&">> },
      d \in { Undefined, <<"J","a","n">> },
      f \in { <<>>,
              << << <<"o","r","g">>, <<"X">> >> >>,
              << << <<"t","i","t","l","e">>, <<"T">> >> >>,
              << << <<"n","a","m","e">>, <<"N">> >> >>,
              << << <<"o",".","g">>, <<"V">> >> >>,
              << << <<"(">>, <<"x">> >> >> } }

\* texts of a text element
Texts ==
  { Token(<<"n","a","m","e">>),
    Token(<<"N","A","M","E">>),
    Token(<<"n","a","m","e">>) \o <<" ">> \o Token(<<"N","a","m","e">>),
    Token(<<"t","i","t","l","e">>),
    Token(<<"d","a","t","e">>),
    Token(<<"o","r","g">>),
    Token(<<"f","o","o">>),
    <<"h","i">> }

SubstituteCalls ==
  { [fn |-> "replacePlaceholders", text |-> t, recipient |-> r] :
      t \in Texts, r \in PlainRecipients }

\* a returned value, and a thrown one
Returns(v) == [threw |-> FALSE, value |-> v]
Throws(e)  == [threw |-> TRUE, error |-> e]

\* Substitute writing the substituted text back into its argument
Substitute_InPlace ==
  /\ call.fn = "replacePlaceholders"
  /\ result = <<>>
  /\ ~ replacePlaceholdersThrows(call.recipient)
  /\ result' = << Returns(replacePlaceholders(call.text, call.recipient)) >>
  /\ call' = [call EXCEPT !.text = replacePlaceholders(call.text, call.recipient)]
  /\ UNCHANGED << batch, first, preview >>

\* replacePlaceholders(text, recipient) returns or throws
Substitute ==
  /\ call.fn = "replacePlaceholders"
  /\ result = <<>>
  /\ result' = << IF replacePlaceholdersThrows(call.recipient)
                  THEN Throws(RegExpError)
                  ELSE Returns(replacePlaceholders(call.text, call.recipient)) >>
  /\ UNCHANGED << batch, first, preview, call >>

\* ------------------------------------------------------------------------
\* extractPlaceholders and validateRecipientData
\* ------------------------------------------------------------------------

\* where the match of /\{\{([^}]+)\}\}/ that starts at position p ends, or 0
\* when none starts there: "{{", the longest run of characters other than
\* "}" (at least one), "}}"
TokenEnd(text, p) ==
  IF p + 1 <= Len(text) /\ text[p] = "{" /\ text[p + 1] = "{"
  THEN LET closers == { q \in (p + 2)..Len(text) : text[q] = "}" }
       IN  IF closers = {} THEN 0
           ELSE LET q == CHOOSE c \in closers : \A d \in closers : c <= d
                IN  IF q > p + 2 /\ q + 1 <= Len(text) /\ text[q + 1] = "}"
                    THEN q + 1 ELSE 0
  ELSE 0

\* placeholders.add(key): a Set keeps a key once, in insertion order
SetAdd(found, key) == IF key \in Range(found) THEN found ELSE Append(found, key)

\* the while loop over regex.exec(element.text) with lastIndex at p
RECURSIVE ExtractFrom(_, _, _)
ExtractFrom(text, p, found) ==
  IF p > Len(text) THEN found
  ELSE IF TokenEnd(text, p) # 0
       THEN ExtractFrom(text, TokenEnd(text, p) + 1,
                        SetAdd(found, SubSeq(text, p + 2, TokenEnd(text, p) - 2)))
       ELSE ExtractFrom(text, p + 1, found)

\* one element of textElements.forEach: exec returned null for the element
\* before, so lastIndex is 0 again
ExtractElement(text, found) == ExtractFrom(text, 1, found)

RECURSIVE ExtractElements(_, _, _)
ExtractElements(texts, k, found) ==
  IF k > Len(texts) THEN found
  ELSE ExtractElements(texts, k + 1, ExtractElement(texts[k], found))

\* extractPlaceholders, on the texts of the text elements
extractPlaceholders(texts) == ExtractElements(texts, 1, <<>>)

\* customFields?.[placeholder]
FieldValue(fields, key) ==
  IF \E k \in DOMAIN fields : fields[k][1] = key
  THEN fields[CHOOSE k \in DOMAIN fields : fields[k][1] = key][2]
  ELSE Undefined

\* the chained conditional of lines 423-430
ResolveValue(recipient, placeholder) ==
  IF placeholder = <<"n","a","m","e">> THEN recipient.name
  ELSE IF placeholder = <<"t","i","t","l","e">> THEN recipient.title
  ELSE IF placeholder = <<"d","a","t","e">> THEN recipient.date
  ELSE FieldValue(recipient.customFields, placeholder)

\* !value
Falsy(v) == v = Undefined \/ v = <<>>

DigitChars == << "0","1","2","3","4","5","6","7","8","9" >>

\* a number in a template literal
RECURSIVE Decimal(_)
Decimal(n) ==
  IF n < 10 THEN << DigitChars[n + 1] >>
  ELSE Decimal(n \div 10) \o << DigitChars[(n % 10) + 1] >>

\* `Recipient ${index + 1} (${recipient.name}) is missing field: ${placeholder}`
MissingFieldMessage(index, name, placeholder) ==
  <<"R","e","c","i","p","i","e","n","t"," ">> \o Decimal(index + 1)
    \o <<" ","(">> \o name
    \o <<")"," ","i","s"," ","m","i","s","s","i","n","g"," ","f","i","e","l","d",":"," ">>
    \o placeholder

\* the inner forEach, from required key k on, for the recipient at index
RECURSIVE ValidateKeys(_, _, _, _, _)
ValidateKeys(recipient, index, required, k, errors) ==
  IF k > Len(required) THEN errors
  ELSE ValidateKeys(recipient, index, required, k + 1,
         IF Falsy(ResolveValue(recipient, required[k]))
         THEN Append(errors, MissingFieldMessage(index, recipient.name, required[k]))
         ELSE errors)

\* ValidateRecipients giving up at the first recipient with an error
RECURSIVE ValidateRecipients_StopsAtFirst(_, _, _, _)
ValidateRecipients_StopsAtFirst(rs, required, k, errors) ==
  IF k > Len(rs) \/ errors # <<>> THEN errors
  ELSE ValidateRecipients_StopsAtFirst(rs, required, k + 1,
         ValidateKeys(rs[k], k - 1, required, 1, errors))

\* the outer forEach, from the recipient at position k on
RECURSIVE ValidateRecipients(_, _, _, _)
ValidateRecipients(rs, required, k, errors) ==
  IF k > Len(rs) THEN errors
  ELSE ValidateRecipients(rs, required, k + 1,
                          ValidateKeys(rs[k], k - 1, required, 1, errors))

validateRecipientData(rs, required) ==
  LET errors == ValidateRecipients(rs, required, 1, <<>>)
  IN  [valid |-> Len(errors) = 0, errors |-> errors]

\* texts handed to extractPlaceholders: up to n pieces, each a token, a
\* broken token or a single character
Pieces ==
  { Token(<<"a">>), Token(<<"b">>), Token(<<"A">>), Token(<<>>),
    <<"{","{","a","}">>, <<"{">>, <<"}">>, <<"x">> }

RECURSIVE PieceTexts(_)
PieceTexts(n) ==
  IF n = 0 THEN { <<>> }
  ELSE LET shorter == PieceTexts(n - 1)
       IN  shorter \cup { t \o q : t \in shorter, q \in Pieces }

ExtractCalls ==
  { [fn |-> "extractPlaceholders", texts |-> l] :
      l \in { <<>> } \cup { <<t>> : t \in PieceTexts(MaxPieces) }
              \cup { <<t, u>> : t, u \in PieceTexts(MaxPieces - 1) } }

\* extractPlaceholders(textElements) returns
Extract ==
  /\ call.fn = "extractPlaceholders"
  /\ result = <<>>
  /\ result' = << extractPlaceholders(call.texts) >>
  /\ UNCHANGED << batch, first, preview, call >>

\* recipients handed to validateRecipientData
ValidatedPool ==
  { Recipient(<<"A","n","n">>, <<"D","r">>, Undefined, <<>>),
    Recipient(<<"B","o">>, Undefined, Undefined, << << <<"o","r","g">>, <<"X">> >> >>),
    Recipient(<<"C","y">>, <<>>, <<"J","a","n">>, << << <<"o","r","g">>, <<>> >> >>),
    Recipient(<<"D","i">>, Undefined, Undefined, << << <<"t","i","t","l","e">>, <<"T">> >> >>),
    Recipient(<<"E","d">>, <<"D","r">>, Undefined, << << <<"t","i","t","l","e">>, <<"T">> >> >>) }

\* texts of the text elements whose placeholders are required
ValidatedTexts ==
  { << Token(<<"n","a","m","e">>),
       Token(<<"t","i","t","l","e">>) \o <<" ">> \o Token(<<"o","r","g">>) >>,
    << Token(<<"N","A","M","E">>) >>,
    << Token(<<"o","r","g">>),
       Token(<<"o","r","g">>) \o <<" ">> \o Token(<<"d","a","t","e">>) >>,
    <<>> }

ValidateCalls ==
  { [fn |-> "validateRecipientData", recipients |-> rs, texts |-> l] :
      rs \in UNION { [1..n -> ValidatedPool] : n \in 0..MaxRecipients },
      l \in ValidatedTexts }

\* validateRecipientData(recipients, extractPlaceholders(textElements)) returns
Validate ==
  /\ call.fn = "validateRecipientData"
  /\ result = <<>>
  /\ result' = << validateRecipientData(call.recipients,
                                        extractPlaceholders(call.texts)) >>
  /\ UNCHANGED << batch, first, preview, call >>

\* ------------------------------------------------------------------------
\* parseRecipientsFile
\* ------------------------------------------------------------------------

\* most records in the recipients array of a file
MaxRecords == 2

\* values of the parsed JSON; Absent is what reading a missing property gives
JStr(s)   == [type |-> "string", value |-> s]
JNum(n)   == [type |-> "number", value |-> n]
JNull     == [type |-> "null"]
JArray(l) == [type |-> "array", items |-> l]
Absent    == [type |-> "undefined"]

\* a record of the array that is an object, by the properties the code reads
JRecord(name, title, date, fields) ==
  [type |-> "object", name |-> name, title |-> title, date |-> date,
   customFields |-> fields]

\* !v is false
Truthy(v) ==
  CASE v.type = "string" -> v.value # <<>>
    [] v.type = "number" -> v.value # 0
    [] v.type \in { "null", "undefined" } -> FALSE
    [] OTHER -> TRUE

\* recipient.name: a property read of null throws a TypeError, of a number or
\* a string gives undefined
ReadThrows(record) == record.type = "null"
NameOf(record) == IF record.type = "object" THEN record.name ELSE Absent

\* v || fallback, for a property of a record whose name is valid
OrElse(v, fallback) == IF Truthy(v) THEN v.value ELSE fallback

\* message of the TypeError for recipient.name on null (as V8 words it)
NullReadMessage ==
  <<"C","a","n","n","o","t"," ","r","e","a","d"," ","p","r","o","p","e",
  "r","t","i","e","s"," ","o","f"," ","n","u","l","l"," ","(","r","e",
  "a","d","i","n","g"," ","'","n","a","m","e","'",")">>

\* message of the SyntaxError of JSON.parse on an empty file (as V8 words it)
SyntaxMessage ==
  <<"U","n","e","x","p","e","c","t","e","d"," ","e","n","d"," ","o","f",
  " ","J","S","O","N"," ","i","n","p","u","t">>

StructureMessage ==
  <<"I","n","v","a","l","i","d"," ","J","S","O","N"," ","s","t","r","u",
  "c","t","u","r","e","."," ","E","x","p","e","c","t","e","d"," ","{",
  " ","\"","r","e","c","i","p","i","e","n","t","s","\"",":"," ","[",".",
  ".",".","]"," ","}">>

\* `Recipient at index ${index} is missing a valid "name" field`
MissingNameMessage(index) ==
  <<"R","e","c","i","p","i","e","n","t"," ","a","t"," ","i","n","d","e",
  "x"," ">>
    \o Decimal(index) \o
  <<" ","i","s"," ","m","i","s","s","i","n","g"," ","a"," ","v","a","l",
  "i","d"," ","\"","n","a","m","e","\""," ","f","i","e","l","d">>

\* `Failed to parse JSON: ${error.message}`
ParseFailure(message) ==
  <<"F","a","i","l","e","d"," ","t","o"," ","p","a","r","s","e"," ","J",
  "S","O","N",":"," ">>
    \o message

ReadFailure ==
  <<"F","a","i","l","e","d"," ","t","o"," ","r","e","a","d"," ","f","i",
  "l","e">>

\* the callback of data.recipients.map for the record at 0-based index
MapRecord(record, index) ==
  IF ReadThrows(record) THEN Throws(NullReadMessage)
  ELSE IF ~ Truthy(NameOf(record)) \/ NameOf(record).type # "string"
       THEN Throws(MissingNameMessage(index))
       ELSE Returns(Recipient(record.name.value,
                              OrElse(record.title, <<>>),
                              OrElse(record.date, <<>>),
                              OrElse(record.customFields, <<>>)))

\* data.recipients.map(...): the first throw ends the map
RECURSIVE MapRecords(_, _, _)
MapRecords(records, k, out) ==
  IF k > Len(records) THEN Returns(out)
  ELSE LET mapped == MapRecord(records[k], k - 1)
       IN  IF mapped.threw THEN mapped
           ELSE MapRecords(records, k + 1, Append(out, mapped.value))

\* reader.onload: what the promise settles with for the text read
OnLoad(content) ==
  IF ~ content.parses THEN Throws(ParseFailure(SyntaxMessage))
  ELSE IF ~ Truthy(content.data.recipients)
            \/ content.data.recipients.type # "array"
       THEN Throws(ParseFailure(StructureMessage))
       ELSE LET mapped == MapRecords(content.data.recipients.items, 1, <<>>)
            IN  IF mapped.threw THEN Throws(ParseFailure(mapped.error))
                ELSE mapped

\* parseRecipientsFile(file): reader.onerror or reader.onload
parseRecipientsFile(file) ==
  IF file.read = "error" THEN Throws(ReadFailure) ELSE OnLoad(file.content)

\* files handed to parseRecipientsFile
RecordPool ==
  { JRecord(n, t, Absent, f) :
      n \in { Absent, JStr(<<"B","o">>), JStr(<<>>), JNum(7), JNull },
      t \in { Absent, JStr(<<"x">>) },
      f \in { Absent, [type |-> "object",
                       value |-> << << <<"o","r","g">>, <<"X">> >> >>] } }
  \cup { JNull, JNum(5), JStr(<<"B","o">>) }

Files ==
  { [read |-> "error"],
    [read |-> "ok", content |-> [parses |-> FALSE]],
    [read |-> "ok", content |-> [parses |-> TRUE, data |-> [recipients |-> Absent]]],
    [read |-> "ok", content |-> [parses |-> TRUE,
                                 data |-> [recipients |-> JStr(<<"B","o">>)]]] }
  \cup { [read |-> "ok",
          content |-> [parses |-> TRUE, data |-> [recipients |-> JArray(l)]]] :
           l \in UNION { [1..n -> RecordPool] : n \in 0..MaxRecords } }

LoadCalls == { [fn |-> "parseRecipientsFile", file |-> f] : f \in Files }

\* the promise of parseRecipientsFile(file) settles
Load ==
  /\ call.fn = "parseRecipientsFile"
  /\ result = <<>>
  /\ result' = << parseRecipientsFile(call.file) >>
  /\ UNCHANGED << batch, first, preview, call >>

\* ------------------------------------------------------------------------
\* Specification of the functions called on their own
\* ------------------------------------------------------------------------

PureCalls ==
  SanitizeCalls \cup SubstituteCalls \cup ExtractCalls \cup ValidateCalls
    \cup LoadCalls

PureInit ==
  /\ BatchIdle
  /\ first = <<>>
  /\ preview = NoPreview
  /\ call \in PureCalls
  /\ result = <<>>

PureNext ==
  \/ Sanitize
  \/ Substitute
  \/ Extract
  \/ Validate
  \/ Load

SpecPure == PureInit /\ [][PureNext]_vars

\* ------------------------------------------------------------------------
\* Specification of each operation run on its own
\* ------------------------------------------------------------------------

\* one behaviour is one generateBatch call, possibly followed by a
\* generatePreview call for one of its recipients and its layout; or one
\* generatePreview call on a new generator; or one call of replacePlaceholders
\* or of validateRecipientData
AloneInit ==
  /\ BatchIdle
  /\ first = <<>>
  /\ preview = NoPreview
  /\ call \in { NoCall } \cup SubstituteCalls \cup ValidateCalls
  /\ result = <<>>

AloneNext ==
  \/ call = NoCall /\ preview = NoPreview /\ Next
  \/ /\ call = NoCall
     /\ pc = "idle"
     /\ \E r \in RecipientPool, tpl \in { Template, PreviewTemplate },
           imgs \in ImageElementLists :
          GeneratePreview(r, tpl, TextElements, imgs)
  \/ /\ pc = "resolved"
     /\ \E k \in DOMAIN recipients :
          GeneratePreview(recipients[k], template, textElements, imageElements)
  \/ PreviewBackgroundLoaded
  \/ PreviewBackgroundFailed
  \/ \E k \in 1..MaxOverlays : PreviewOverlayLoaded(k)
  \/ \E k \in 1..MaxOverlays : PreviewOverlayFailed(k)
  \/ PreviewRendered
  \/ Substitute
  \/ Validate

SpecAlone == AloneInit /\ [][AloneNext]_vars

\* ------------------------------------------------------------------------
\* Vocabulary of the properties
\* ------------------------------------------------------------------------

\* the value of event k when it was handed to onProgress
Val(k) == events[k].val

\* the value the caller holding event k reads now
Observed(k) == IF events[k].live THEN progress ELSE events[k].val

LogIndices(op) == { k \in DOMAIN log : log[k].op = op }

\* recipients handed to the Rasterizer so far
RenderCount == Cardinality(LogIndices("renderCertificate"))

\* the archive the caller received
Delivered == downloads[1]

\* the last recipient, in input order, stored under file name f
LastWithName(f) ==
  CHOOSE k \in DOMAIN recipients :
    /\ Filename(recipients[k].name) = f
    /\ \A j \in DOMAIN recipients : Filename(recipients[j].name) = f => j <= k

\* the frame of a recipient: its rendering on a blank surface of the
\* template's size, with every image loaded, encoded
FrameOf(recipient) ==
  EncodePng(renderCertificate(
    Resize(NewCanvas, template.width, template.height), template, textElements,
    [template |-> ImageOf(template.backgroundImage),
     elements |-> [k \in DOMAIN imageElements |->
                     [element |-> imageElements[k],
                      img |-> ImageOf(imageElements[k].src)]]],
    recipient))

IsLoadError(err) ==
  \/ err = LoadError(template.backgroundImage)
  \/ \E k \in DOMAIN imageElements : err = LoadError(imageElements[k].src)

\* the run rejected while it was in the recipient loop
LoopFailure ==
  /\ pc = "rejected"
  /\ RenderCount > 0
  /\ LogIndices("zip.generateAsync") = {}

\* ------------------------------------------------------------------------
\* Properties
\* ------------------------------------------------------------------------

\* C1: when generateBatch completes successfully, the archive it delivers
\* holds exactly one entry per recipient, also when several recipients have
\* names that sanitize to the same string.
C1_OneEntryPerRecipient ==
  pc = "resolved" => Cardinality(DOMAIN Delivered) = Len(recipients)

\* C2: in a run that fails, at whatever step, no archive is handed to the
\* caller: link.click() is never reached and nothing is downloaded, although
\* the run's archive may already hold some of the frames.
C2_NoArchiveOnFailure ==
  (pc = "rejected" \/ thrown # <<>>) =>
     /\ downloads = <<>>
     /\ LogIndices("link.click") = {}

\* a run rejected with one of two frames already in its archive
C2_Witness ==
  /\ pc = "rejected"
  /\ Len(recipients) = 2
  /\ Cardinality(DOMAIN zip) = 1
  /\ i = 1

\* C3 as stated: the events of a run are per-recipient events in strictly
\* increasing current order, exactly one per recipient processed, followed by
\* one final event whose status is complete or error.
C3_StrictlyIncreasingThenFinal ==
  (onProgress /\ pc \in {"resolved", "rejected"}) =>
     LET n == Len(events)
     IN  /\ n >= 1
         /\ Val(n).status \in {"complete", "error"}
         /\ \A k \in 1..(n - 1) : Val(k).status = "processing"
         /\ \A j, k \in 1..(n - 1) : j < k => Val(j).current < Val(k).current
         /\ n - 1 = RenderCount

\* C3 amended: the first event is the initial processing event (current 0, no
\* currentName); the per-recipient events follow in strictly increasing
\* current order 0, 1, 2, ..., exactly one per recipient processed; then comes
\* a complete event if the loop finished, and an error event if the run
\* rejects, which follows the complete event when archive finalization
\* fails; a finished run's last event is complete (resolved) or error
\* (rejected).
C3_EventOrder ==
  (onProgress /\ pc # "idle") =>
     LET n == Len(events)
         m == RenderCount
     IN  /\ n >= m + 1
         /\ n <= m + 3
         /\ Val(1) = InitProgress(Len(recipients))
         /\ \A k \in 2..(m + 1) :
              /\ Val(k).status = "processing"
              /\ Val(k).current = k - 2
              /\ Val(k).currentName = recipients[k - 1].name
         /\ \A k \in (m + 2)..n :
              /\ Val(k).status \in {"complete", "error"}
              /\ Val(k).status = "complete" => k = m + 2 /\ m = Len(recipients)
              /\ Val(k).status = "error" => k = n /\ pc = "rejected"
         /\ pc = "resolved" => Val(n).status = "complete"
         /\ pc = "rejected" => Val(n).status = "error"

\* archive finalization failed after two recipients: initial, 0, 1, complete, error
C3_Witness ==
  /\ onProgress
  /\ pc = "rejected"
  /\ Len(events) = 5
  /\ Val(4).status = "complete"
  /\ Val(5).status = "error"

\* C4: every event handed to onProgress is a snapshot: what the caller
\* received for an event is not changed by a later step of the run, the
\* initial event included.
C4_EventsAreSnapshots ==
  \A k \in DOMAIN events : Observed(k) = Val(k)

\* C5: a failing run sets progress.status to error with a non-empty message,
\* emits that event last, and rejects with the error the message was taken
\* from.
C5_ErrorEventBeforeReject ==
  /\ (pc = "rejected") <=> (thrown # <<>>)
  /\ pc = "rejected" =>
       /\ progress.status = "error"
       /\ progress.error # Undefined
       /\ Len(progress.error) > 0
       /\ progress.error = ErrorMessage(thrown[1])
       /\ onProgress =>
            /\ events # <<>>
            /\ Val(Len(events)) = progress
            /\ log[Len(log)] = [op |-> "onProgress", current |-> progress.current,
                                status |-> "error"]

\* a run rejected with a value that is no Error: the fallback message is used
C5_Witness ==
  /\ pc = "rejected"
  /\ onProgress
  /\ ~ thrown[1].isError
  /\ Val(Len(events)).status = "error"

\* C6: when the background or an overlay fails to load, the batch aborts
\* before any frame is drawn: the Rasterizer is never called, nothing is
\* encoded or put in the archive, the surface stays blank, and the events
\* are the initial processing event followed by one error event.
C6_LoadFailureAborts ==
  (bgLoad = "failed" \/ \E k \in DOMAIN elemLoad : elemLoad[k] = "failed") =>
     /\ pc = "rejected"
     /\ IsLoadError(thrown[1])
     /\ RenderCount = 0
     /\ LogIndices("toBlob") = {}
     /\ LogIndices("zip.file") = {}
     /\ DOMAIN zip = {}
     /\ canvas.ops = <<>>
     /\ downloads = <<>>
     /\ onProgress =>
          /\ Len(events) = 2
          /\ Val(1) = InitProgress(Len(recipients))
          /\ Val(2).status = "error"
          /\ Val(2).error = ErrorMessage(thrown[1])

\* an overlay failed to load in a run with recipients and a callback
C6_Witness ==
  /\ \E k \in DOMAIN elemLoad : elemLoad[k] = "failed"
  /\ recipients # <<>>
  /\ onProgress
  /\ Len(events) = 2

\* C7: a failure of rendering, encoding or insertion for recipient i stops the
\* batch there: the call rejects, no event has current > i, no recipient
\* after i is rendered, no complete event is emitted; and a recipient is
\* only ever rendered after every earlier one was inserted (nothing is
\* skipped).
C7_NoSkipAndContinue ==
  /\ LoopFailure =>
       /\ thrown # <<>>
       /\ i < Len(recipients)
       /\ \A k \in DOMAIN events : Val(k).current <= i /\ Val(k).status # "complete"
       /\ \A k \in LogIndices("renderCertificate") : log[k].index <= i
       /\ RenderCount = i + 1
       /\ \A k \in LogIndices("zip.file") : log[k].index <= i
  /\ \A k \in LogIndices("renderCertificate") :
       \A j \in 0..(log[k].index - 1) :
         \E f \in LogIndices("zip.file") : f < k /\ log[f].index = j
  /\ \A k \in LogIndices("zip.generateAsync") :
       Cardinality({ f \in LogIndices("zip.file") : f < k }) = Len(recipients)

\* the second recipient's frame could not be encoded
C7_Witness ==
  /\ LoopFailure
  /\ thrown = <<BlobError>>
  /\ i = 1
  /\ onProgress

\* C8: across all events of a run, current never decreases from one event
\* to the next.
C8_CurrentMonotone ==
  \A j, k \in DOMAIN events : j < k => Val(j).current <= Val(k).current

\* a successful run over two recipients: currents 0, 0, 1, 2
C8_Witness ==
  /\ pc = "resolved"
  /\ Len(events) = 4
  /\ Val(4).current = 2

\* C9 as stated: in a processing event 0 <= current < total and total is the
\* number of recipients; in a complete event current = total; for every
\* recipient list, the empty one included.
C9_IndexInRange ==
  \A k \in DOMAIN events :
    /\ Val(k).status = "processing" =>
         /\ 0 <= Val(k).current
         /\ Val(k).current < Val(k).total
         /\ Val(k).total = Len(recipients)
    /\ Val(k).status = "complete" => Val(k).current = Val(k).total

\* C9 amended: in a processing event total is the number of recipients and
\* current is a 0-based recipient index, 0 <= current < total, unless the
\* list is empty, where the only processing event is the initial one with
\* current = total = 0; a per-recipient event names the recipient at index
\* current; in a complete event current = total.
C9_IndexInRangeUnlessEmpty ==
  \A k \in DOMAIN events :
    /\ Val(k).total = Len(recipients)
    /\ Val(k).status = "processing" =>
         /\ 0 <= Val(k).current
         /\ recipients # <<>> => Val(k).current < Val(k).total
         /\ recipients = <<>> => k = 1 /\ Val(k).current = 0
         /\ Val(k).currentName # Undefined =>
              Val(k).currentName = recipients[Val(k).current + 1].name
    /\ Val(k).status = "complete" => Val(k).current = Val(k).total

\* a successful run over the empty list: processing {0 of 0}, complete {0 of 0}
C9_Witness ==
  /\ pc = "resolved"
  /\ recipients = <<>>
  /\ Len(events) = 2
  /\ Val(1).status = "processing"
  /\ Val(2).status = "complete"

\* C10: the frame of recipient i is stored as certificate_<sanitized name>.png;
\* a later recipient of the same file name replaces the earlier one without
\* failing the run, so a delivered archive has one entry per distinct
\* sanitized name, each holding the frame of the last recipient of that name.
C10_LastRecipientWins ==
  /\ \A k \in LogIndices("zip.file") :
       log[k].name = <<"c","e","r","t","i","f","i","c","a","t","e","_">>
                       \o sanitizeFilename(recipients[log[k].index + 1].name)
                       \o <<".","p","n","g">>
  /\ pc = "resolved" =>
       /\ DOMAIN Delivered = { Filename(recipients[k].name) : k \in DOMAIN recipients }
       /\ Cardinality(DOMAIN Delivered) =
            Cardinality({ sanitizeFilename(recipients[k].name) : k \in DOMAIN recipients })
       /\ \A f \in DOMAIN Delivered :
            Delivered[f] = FrameOf(recipients[LastWithName(f)])
       /\ (\E k \in DOMAIN recipients : recipients[k].name = <<"B","o">>) =>
            <<"c","e","r","t","i","f","i","c","a","t","e","_","b","o",".","p","n","g">>
              \in DOMAIN Delivered

\* "Ann" then "ann!": one entry, certificate_ann.png, holding the second frame
C10_Witness ==
  /\ pc = "resolved"
  /\ Len(recipients) = 2
  /\ recipients[1].name = <<"A","n","n">>
  /\ recipients[2].name = <<"a","n","n","!">>
  /\ DOMAIN Delivered =
       { <<"c","e","r","t","i","f","i","c","a","t","e","_","a","n","n",".","p","n","g">> }
  /\ Delivered[Filename(recipients[2].name)] # FrameOf(recipients[1])

\* ------------------------------------------------------------------------
\* Properties of sanitizeFilename
\* ------------------------------------------------------------------------

Returned == result[1]

\* s with every maximal run of characters outside keep replaced by one "_"
RECURSIVE SquashFrom(_, _, _)
SquashFrom(s, k, keep) ==
  IF k > Len(s) THEN <<>>
  ELSE (IF s[k] \in keep THEN << s[k] >>
        ELSE IF k = 1 \/ s[k - 1] \in keep THEN << "_" >> ELSE <<>>)
       \o SquashFrom(s, k + 1, keep)

\* s without its leading and trailing underscores
Unframed(s) ==
  LET solid == { k \in DOMAIN s : s[k] # "_" }
  IN  IF solid = {} THEN <<>>
      ELSE SubSeq(s, CHOOSE k \in solid : \A j \in solid : k <= j,
                     CHOOSE k \in solid : \A j \in solid : j <= k)

LowerAlnum == Range(LowerLetters) \cup Digits

\* the output is a clean token over [a-z0-9_]
CleanToken(s) ==
  /\ \A k \in DOMAIN s : s[k] \in LowerAlnum \cup {"_"}
  /\ s # <<>> => s[1] # "_" /\ s[Len(s)] # "_"
  /\ \A k \in 1..(Len(s) - 1) : ~ (s[k] = "_" /\ s[k + 1] = "_")

\* C11 as stated: the result is a clean token over [a-z0-9_] and equals the
\* name lower-cased, then every maximal run of characters outside [a-z0-9]
\* replaced by one underscore, then leading and trailing underscores stripped.
C11_LowerCaseThenReplace ==
  (call.fn = "sanitizeFilename" /\ result # <<>>) =>
     /\ CleanToken(Returned)
     /\ Returned = Unframed(SquashFrom(toLowerCase(call.name), 1, LowerAlnum))

\* C11 amended: the result is a clean token over [a-z0-9_] and equals the
\* name with every maximal run of characters outside [A-Za-z0-9] replaced by
\* one underscore, leading and trailing underscores stripped, then
\* lower-cased (a character that is no ASCII letter or digit becomes an
\* underscore even if its lower case is an ASCII letter).
C11_ReplaceThenLowerCase ==
  (call.fn = "sanitizeFilename" /\ result # <<>>) =>
     /\ CleanToken(Returned)
     /\ Returned = toLowerCase(Unframed(SquashFrom(call.name, 1,
                      LowerAlnum \cup Range(UpperLetters))))

\* "_B!!" gives "b": a leading underscore, an upper-case letter, a run of two
C11_Witness ==
  /\ call.fn = "sanitizeFilename"
  /\ call.name = << "_", "B", "!", "!" >>
  /\ result = << << "b" >> >>

\* ------------------------------------------------------------------------
\* Properties of replacePlaceholders
\* ------------------------------------------------------------------------

Substituted == call.fn = "replacePlaceholders" /\ result # <<>>

NameKey  == <<"n","a","m","e">>
TitleKey == <<"t","i","t","l","e">>
DateKey  == <<"d","a","t","e">>

\* two keys that differ at most in letter case
SameKey(a, b) == [k \in DOMAIN a |-> FoldChar(a[k])] = [k \in DOMAIN b |-> FoldChar(b[k])]

\* C12: substituting into {{name}}, in any letter case, yields exactly
\* recipient.name, whatever the recipient's fields contain, and every
\* occurrence of the token is replaced.
C12_NameTokenYieldsName ==
  Substituted =>
     /\ call.text \in { Token(NameKey), Token(<<"N","A","M","E">>) } =>
          /\ ~ Returned.threw
          /\ Returned.value = call.recipient.name
     /\ call.text = Token(NameKey) \o <<" ">> \o Token(<<"N","a","m","e">>) =>
          /\ ~ Returned.threw
          /\ Returned.value = call.recipient.name \o <<" ">> \o call.recipient.name

\* C13: a token {{k}} whose key is no standard key and no key of the
\* recipient's customFields (in any letter case) comes out unchanged, and no
\* error is raised.
C13_UnknownKeyUntouched ==
  Substituted =>
     \A k \in { <<"f","o","o">>, <<"o","r","g">> } :
        ( /\ call.text = Token(k)
          /\ \A j \in DOMAIN call.recipient.customFields :
               ~ SameKey(call.recipient.customFields[j][1], k) )
        => /\ ~ Returned.threw
           /\ Returned.value = call.text

\* C14 (substitution): when customFields has a key named name, title or date,
\* {{name}}, {{title}} and {{date}} still yield the standard field (empty
\* when absent), never the customFields value.
C14_StandardKeyWins ==
  Substituted =>
     \A j \in DOMAIN call.recipient.customFields :
        call.recipient.customFields[j][1] \in { NameKey, TitleKey, DateKey } =>
           /\ call.text = Token(NameKey)  => Returned = Returns(call.recipient.name)
           /\ call.text = Token(TitleKey) => Returned = Returns(OrEmpty(call.recipient.title))
           /\ call.text = Token(DateKey)  => Returned = Returns(OrEmpty(call.recipient.date))

\* ------------------------------------------------------------------------
\* Properties of validateRecipientData and extractPlaceholders
\* ------------------------------------------------------------------------

Validated == call.fn = "validateRecipientData" /\ result # <<>>

\* what substitution makes of the token {{key}} for a recipient
SubstitutedToken(recipient, key) == replacePlaceholders(Token(key), recipient)

\* C15: an error is reported for (recipient, key), key returned by
\* extractPlaceholders, if and only if substitution would leave {{key}}
\* unreplaced or replace it by the empty string, also for keys written in
\* another letter case.
C15_ValidatorAgreesWithEngine ==
  Validated =>
     \A k \in DOMAIN call.recipients :
        \A key \in Range(extractPlaceholders(call.texts)) :
           (MissingFieldMessage(k - 1, call.recipients[k].name, key)
              \in Range(Returned.errors))
           <=> SubstitutedToken(call.recipients[k], key) \in { Token(key), <<>> }

\* the (position, key) pairs whose value is empty or absent, standard fields
\* first, then customFields
Missing(rs, required) ==
  { pos \in (DOMAIN rs) \X (DOMAIN required) :
      LET r   == rs[pos[1]]
          key == required[pos[2]]
      IN  CASE key = NameKey  -> r.name \in { Undefined, <<>> }
            [] key = TitleKey -> r.title \in { Undefined, <<>> }
            [] key = DateKey  -> r.date \in { Undefined, <<>> }
            [] OTHER -> \A j \in DOMAIN r.customFields :
                           r.customFields[j][1] = key => r.customFields[j][2] = <<>> }

Extracted == call.fn = "extractPlaceholders" /\ result # <<>>

\* the token {{key}}, key non-empty and without a closing brace, is written
\* somewhere in one of the texts
OccursAsToken(key, texts) ==
  /\ key # <<>>
  /\ "}" \notin Range(key)
  /\ \E e \in DOMAIN texts :
       \E p \in 1..(Len(texts[e]) - Len(key) - 3) :
          SubSeq(texts[e], p, p + Len(key) + 3) = Token(key)

Substrings(texts) ==
  UNION { { SubSeq(texts[e], a, b) : a, b \in 1..Len(texts[e]) } :
            e \in DOMAIN texts }

\* C18: extractPlaceholders returns every key that occurs as a {{key}} token
\* in some text, each exactly once, and no key that occurs in none.
C18_ExactlyTheKeysOfTokens ==
  Extracted =>
     /\ \A a, b \in DOMAIN Returned : Returned[a] = Returned[b] => a = b
     /\ \A key \in Substrings(call.texts) :
           OccursAsToken(key, call.texts) => key \in Range(Returned)
     /\ \A key \in Range(Returned) : OccursAsToken(key, call.texts)

\* ------------------------------------------------------------------------
\* Properties of parseRecipientsFile
\* ------------------------------------------------------------------------

Loaded == call.fn = "parseRecipientsFile" /\ result # <<>>

\* the file was read, parsed, and holds an array of records
HoldsRecords ==
  /\ call.fn = "parseRecipientsFile"
  /\ call.file.read = "ok"
  /\ call.file.content.parses
  /\ call.file.content.data.recipients.type = "array"

Records == call.file.content.data.recipients.items

\* the record is an object with a non-empty string name
HasName(record) ==
  /\ record.type = "object"
  /\ record.name.type = "string"
  /\ record.name.value # <<>>

\* text occurs in message
Contains(message, text) ==
  \E p \in 1..(Len(message) - Len(text) + 1) :
     SubSeq(message, p, p + Len(text) - 1) = text

\* C17: if a record lacks a non-empty string name (a record that is not an
\* object included) the load fails with an error naming the 0-based index of
\* the first such record and returns no list; if every record is valid the
\* result has the length and order of the input.
C17_AllOrNothing ==
  (Loaded /\ HoldsRecords) =>
     LET invalid == { k \in DOMAIN Records : ~ HasName(Records[k]) }
     IN  IF invalid = {}
         THEN /\ ~ Returned.threw
              /\ Len(Returned.value) = Len(Records)
              /\ \A k \in DOMAIN Records :
                    Returned.value[k].name = Records[k].name.value
         ELSE LET firstInvalid == CHOOSE k \in invalid : \A j \in invalid : k <= j
              IN  /\ Returned.threw
                  /\ Contains(Returned.error,
                              <<"i","n","d","e","x"," ">> \o Decimal(firstInvalid - 1))

\* ------------------------------------------------------------------------
\* Properties of two calls in a row
\* ------------------------------------------------------------------------

\* the archive of the call that has just resolved
Archive == downloads[Len(downloads)]

\* C19: a second generateBatch with the same layout, recipients and loaded
\* assets receives the same progress events and delivers an archive with the
\* same entry names and the same frames as the first; whatever the first call
\* left behind, the frames are those of a fresh surface.
C19_SecondRunRepeatsFirst ==
  (first # <<>> /\ pc = "resolved") =>
     /\ \A f \in DOMAIN Archive : Archive[f] = FrameOf(recipients[LastWithName(f)])
     /\ events = first[1].events
     /\ Len(downloads) = 2
     /\ DOMAIN Archive = DOMAIN downloads[1]
     /\ \A f \in DOMAIN Archive : Archive[f] = downloads[1][f]

\* both calls resolved for two recipients with a callback, and the first left
\* a drawn surface behind
C19_Witness ==
  /\ first # <<>>
  /\ pc = "resolved"
  /\ first[1].canvas.ops # <<>>
  /\ Len(recipients) = 2
  /\ Len(events) >= 3
  /\ Len(downloads) = 2
  /\ DOMAIN Archive # {}

\* ------------------------------------------------------------------------
\* Properties of overlapping calls
\* ------------------------------------------------------------------------

\* C20: while a generatePreview call on the same generator overlaps the run,
\* every frame the run encodes and inserts into its archive is the one
\* rendered from the run's layout for the run's recipient, at the run's
\* template dimensions.
C20_RunOwnsItsSurface ==
  /\ pc = "awaitBlob" => blob = FrameOf(recipients[i + 1])
  /\ \A f \in DOMAIN zip :
        /\ zip[f].width = template.width
        /\ zip[f].height = template.height
        /\ \E k \in DOMAIN recipients :
              Filename(recipients[k].name) = f /\ zip[f] = FrameOf(recipients[k])

\* ------------------------------------------------------------------------
\* Properties of the image loads
\* ------------------------------------------------------------------------

\* the loadImage calls made for a source so far
LoadsOf(src) == { k \in LogIndices("loadImage") : log[k].src = src }

OverlaySources == { imageElements[k].src : k \in DOMAIN imageElements }

\* C21: in one run the background and every distinct overlay source are each
\* loaded exactly once, all before the first render, also when image elements
\* share a source.
C21_EachSourceLoadedOnce ==
  /\ \A src \in { template.backgroundImage } \cup OverlaySources :
        /\ Cardinality(LoadsOf(src)) <= 1
        /\ RenderCount > 0 => Cardinality(LoadsOf(src)) = 1
  /\ \A l \in LogIndices("loadImage"), r \in LogIndices("renderCertificate") : l < r

\* ------------------------------------------------------------------------
\* Properties of the inputs
\* ------------------------------------------------------------------------

\* C22: no step of generateBatch, generatePreview, replacePlaceholders or
\* validateRecipientData changes what the call was given: the recipients and
\* the layout of a call that has started stay as they were passed in, through
\* success and failure.
C22_InputsNeverModified ==
  [][ /\ pc # "idle" => UNCHANGED << recipients, template, textElements,
                                     imageElements >>
      /\ preview # NoPreview =>
           /\ preview'.recipient = preview.recipient
           /\ preview'.template = preview.template
           /\ preview'.textElements = preview.textElements
           /\ preview'.imageElements = preview.imageElements
      /\ call' = call ]_vars

\* a batch over two recipients has resolved and a preview made afterwards for
\* one of them has returned
C22_Witness ==
  /\ pc = "resolved"
  /\ Len(recipients) = 2
  /\ preview # NoPreview
  /\ preview.pc = "returned"
  /\ preview.recipient \in Range(recipients)

\* ------------------------------------------------------------------------
\* Properties of the recipient loop
\* ------------------------------------------------------------------------

\* the log entries made for a recipient: its progress event (the first entry
\* of the log is the initial event), render, encode and insertion
RecipientEntries ==
  { k \in DOMAIN log :
      \/ log[k].op \in { "renderCertificate", "toBlob", "zip.file" }
      \/ log[k].op = "onProgress" /\ k > 1 /\ log[k].status = "processing" }

\* the 0-based recipient an entry is about, and its stage within the recipient
IndexOf(k) == IF log[k].op = "onProgress" THEN log[k].current ELSE log[k].index

StageOf(k) ==
  CASE log[k].op = "onProgress"        -> 0
    [] log[k].op = "renderCertificate" -> 1
    [] log[k].op = "toBlob"            -> 2
    [] log[k].op = "zip.file"          -> 3

Stages == IF onProgress THEN 0..3 ELSE 1..3

\* C23: recipients are processed one after another in input order: within a
\* recipient the order is progress event, render, encode, insert, and when
\* anything is done for recipient j all four are done for every i < j.
C23_StrictlySequential ==
  /\ \A a, b \in RecipientEntries :
        a < b => \/ IndexOf(a) < IndexOf(b)
                 \/ IndexOf(a) = IndexOf(b) /\ StageOf(a) < StageOf(b)
  /\ \A b \in RecipientEntries :
        \A idx \in 0..(IndexOf(b) - 1), st \in Stages :
           \E a \in RecipientEntries :
              a < b /\ IndexOf(a) = idx /\ StageOf(a) = st

\* two recipients went through all four stages
C23_Witness ==
  /\ onProgress
  /\ Len(recipients) = 2
  /\ \E a, b \in RecipientEntries :
        /\ IndexOf(a) = 0 /\ StageOf(a) = 3
        /\ IndexOf(b) = 1 /\ StageOf(b) = 3

\* ------------------------------------------------------------------------
\* Properties of renderCertificate
\* ------------------------------------------------------------------------

\* the draw calls of one certificate: the background at (0,0) in the
\* template's size, the image elements in list order, the text elements in
\* list order with the recipient's values substituted
ExpectedDraws(recipient) ==
  << [op |-> "drawImage", img |-> ImageOf(template.backgroundImage),
      x |-> 0, y |-> 0, width |-> template.width, height |-> template.height] >>
  \o [k \in DOMAIN imageElements |->
        [op |-> "drawImage", img |-> ImageOf(imageElements[k].src),
         x |-> imageElements[k].position.x, y |-> imageElements[k].position.y,
         width |-> imageElements[k].width, height |-> imageElements[k].height]]
  \o [k \in DOMAIN textElements |->
        [op |-> "fillText",
         text |-> replacePlaceholders(textElements[k].text, recipient),
         x |-> textElements[k].position.x, y |-> textElements[k].position.y,
         font |-> << textElements[k].fontStyle, textElements[k].fontWeight,
                     textElements[k].fontSize, textElements[k].fontFamily >>,
         fillStyle |-> textElements[k].color,
         textAlign |-> textElements[k].textAlign, textBaseline |-> "top"]]

PreviewFrame ==
  EncodePng(renderCertificate(
    Resize(NewCanvas, preview.template.width, preview.template.height),
    preview.template, preview.textElements,
    [template |-> ImageOf(preview.template.backgroundImage),
     elements |-> [k \in DOMAIN preview.imageElements |->
                     [element |-> preview.imageElements[k],
                      img |-> ImageOf(preview.imageElements[k].src)]]],
    preview.recipient))

PreviewLoadFailed ==
  /\ preview.pc = "rejected"
  /\ \/ preview.settled = << LoadError(preview.template.backgroundImage) >>
     \/ \E k \in DOMAIN preview.imageElements :
           preview.settled = << LoadError(preview.imageElements[k].src) >>

\* C25: the image generatePreview returns is the frame of its recipient, the
\* very frame a generateBatch over the same layout put into its archive for
\* that recipient; a load failure rejects the call with nothing drawn; and no
\* step of generatePreview emits a progress event or touches an archive.
C25_PreviewIsSingleRecipientCase ==
  /\ [](preview # NoPreview =>
          /\ preview.pc = "returned" =>
               /\ preview.settled[1].frame = PreviewFrame
               /\ pc = "resolved" =>
                    \A f \in DOMAIN Archive :
                       recipients[LastWithName(f)] = preview.recipient
                          => preview.settled[1].frame = Archive[f]
          /\ preview.pc \in { "awaitBackground", "awaitOverlays" } => canvas.ops = <<>>
          /\ PreviewLoadFailed => canvas.ops = <<>>)
  /\ [][preview' # preview =>
          UNCHANGED << progress, events, zip, downloads, log >>]_vars

\* a preview made after a batch has returned the frame of a recipient whose
\* frame is in the batch's archive
C25_Witness ==
  /\ pc = "resolved"
  /\ preview # NoPreview
  /\ preview.pc = "returned"
  /\ preview.imageElements # <<>>
  /\ \E f \in DOMAIN Archive : recipients[LastWithName(f)] = preview.recipient

\* ------------------------------------------------------------------------
\* Properties of the end of a run
\* ------------------------------------------------------------------------

\* C26: an event with status complete is the last event of its run, and the
\* run that emitted it does not reject.
C26_CompleteIsTerminal ==
  \A k \in DOMAIN events :
     Val(k).status = "complete" => k = Len(events) /\ pc # "rejected"

\* the events emitted for a recipient: all but the initial one that have
\* status processing
RecipientEvents ==
  { k \in DOMAIN events : k > 1 /\ Val(k).status = "processing" }

Settled == pc \in { "resolved", "rejected" }

\* C27: when every load, encode and finalization settles, a generateBatch
\* call over N recipients settles; it emits at most N recipient events, and a
\* call that resolves has emitted exactly N + 2 events.
C27_CallSettles ==
  /\ [](onProgress =>
          /\ Cardinality(RecipientEvents) <= Len(recipients)
          /\ pc = "resolved" => Len(events) = Len(recipients) + 2)
  /\ (pc # "idle") ~> Settled

\* a call over two recipients has resolved with its four events
C27_Witness ==
  /\ pc = "resolved"
  /\ onProgress
  /\ Len(recipients) = 2
  /\ Cardinality(RecipientEvents) = 2
  /\ Len(events) = 4

====
